---------------------------- MODULE Spec2Model ----------------------------
(***************************************************************************)
(* Model of size_constrained_clustering/da.py (DeterministicAnnealing) and *)
(* size_constrained_clustering/base.py (Base).                             *)
(*                                                                         *)
(* Numbers.  numpy float64 values are modelled as fixed-point integers     *)
(* with scale S (the float v is the integer v*S, truncated).  All finite   *)
(* values that occur are non-negative (coordinates, distances, weights,    *)
(* exponentials), so the two IEEE specials are the negative sentinels NaN  *)
(* and Inf, with numpy's propagation rules (0/0 = nan, x/0 = inf,          *)
(* inf*0 = nan, inf/inf = nan, exp(-inf) = 0).  Points have one feature    *)
(* (d = 1), so cdist(X, centers)[i][j] = |X[i] - centers[j]|.              *)
(*                                                                         *)
(* Indices.  Cluster ids and labels are 0-based as in the source; a row of *)
(* a matrix is a sequence, so column j of the source is element j+1.       *)
(* Point indices are positions 1..n of X (python index + 1).               *)
(***************************************************************************)
EXTENDS Integers, Sequences, FiniteSets, TLC

\* ------------------------------------------------------------------------
\* Bounds of the model
\* ------------------------------------------------------------------------
MaxFits == 1

MaxErrors == 1

MaxPredicts == 2

MaxConstructs == 2

MaxRuns == 2

\* ------------------------------------------------------------------------
\* Fixed-point floats
\* ------------------------------------------------------------------------
S == 1000

NaN == -1

Inf == -2

\* sentinel for a scalar attribute that is None
NONE == -3

\* exp(-x) underflows to 0 beyond this argument (fixed-point 40.0)
ExpCut == 40000

IsFinite(a) == a >= 0

FAdd(a, b) ==
    IF a = NaN \/ b = NaN THEN NaN
    ELSE IF a = Inf \/ b = Inf THEN Inf
    ELSE a + b

FMul(a, b) ==
    IF a = NaN \/ b = NaN THEN NaN
    ELSE IF a = Inf \/ b = Inf THEN (IF a = 0 \/ b = 0 THEN NaN ELSE Inf)
    ELSE (a * b) \div S

FDiv(a, b) ==
    IF a = NaN \/ b = NaN THEN NaN
    ELSE IF a = Inf THEN (IF b = Inf THEN NaN ELSE Inf)
    ELSE IF b = Inf THEN 0
    ELSE IF b = 0 THEN (IF a = 0 THEN NaN ELSE Inf)
    ELSE (a * S) \div b

FAbsDiff(a, b) ==
    IF a = NaN \/ b = NaN THEN NaN
    ELSE IF a = Inf \/ b = Inf THEN (IF a = b THEN NaN ELSE Inf)
    ELSE IF a >= b THEN a - b ELSE b - a

\* np.exp(-x) for x >= 0: the Pade-style bound 1 / (1 + x + x^2/2), which is
\* 1 at 0, strictly decreasing, and underflows to 0 for large x as float64 does.
ExpNeg(x) ==
    IF x = NaN THEN NaN
    ELSE IF x = Inf \/ x > ExpCut THEN 0
    ELSE (S * S) \div (S + x + ((x * x) \div (2 * S)))

RECURSIVE FSum(_)
FSum(s) == IF s = <<>> THEN 0 ELSE FAdd(Head(s), FSum(Tail(s)))

\* the sequence <<F(1), ..., F(n)>>, every element computed once
RECURSIVE Vec(_, _)
Vec(F(_), n) == IF n = 0 THEN <<>> ELSE Append(Vec(F, n - 1), F(n))

\* column j (0-based) of a matrix given as a sequence of rows
Column(m, j) == Vec(LAMBDA r : m[r][j + 1], Len(m))

\* order used by np.argmax: nan beats everything, then inf, then finite values
ArgKey(v) == IF v = NaN THEN 2000000001 ELSE IF v = Inf THEN 2000000000 ELSE v

\* np.argmax(row): 0-based index of the first maximal entry
ArgmaxRow(row) ==
    (CHOOSE j \in 1..Len(row) :
        /\ \A q \in 1..Len(row) : ArgKey(row[q]) <= ArgKey(row[j])
        /\ \A q \in 1..(j - 1) : ArgKey(row[q]) < ArgKey(row[j])) - 1

\* np.argmax(gibbs, axis=1)
argmax(gibbs) == Vec(LAMBDA r : ArgmaxRow(gibbs[r]), Len(gibbs))

\* self.distance_func(Xa, cs) with the default cdist on 1-feature points
distance_func(Xa, cs) ==
    Vec(LAMBDA r : Vec(LAMBDA c : FAbsDiff(Xa[r], cs[c]), Len(cs)), Len(Xa))

\* np.exp(- self.beta * distance_matrix)
exp_term(beta, distance_matrix) ==
    Vec(LAMBDA r : Vec(LAMBDA c : ExpNeg(FMul(beta, distance_matrix[r][c])),
                       Len(distance_matrix[r])),
        Len(distance_matrix))

\* da.py 180-189: one fixed-point step of the multipliers.  divider *
\* demands_prob broadcasts the (n_points, k) matrix with the (len(dp), 1) column.
update_eta(distribution, beta, eta0, dp, distance_matrix) ==
    LET e == exp_term(beta, distance_matrix)
        n_points == Len(distance_matrix)
        n_centers == Len(distance_matrix[1])
        rowsum == Vec(LAMBDA r : FSum(Vec(LAMBDA c : FMul(e[r][c], eta0[c]), n_centers)),
                      n_points)
        weighted == Vec(LAMBDA r :
                          Vec(LAMBDA c : FMul(FDiv(e[r][c], rowsum[r]),
                                              dp[IF Len(dp) = 1 THEN 1 ELSE r]),
                              n_centers),
                        n_points)
    IN Vec(LAMBDA c : FDiv(distribution[c], FSum(Column(weighted, c - 1))), n_centers)

\* da.py 191-197
update_gibbs(beta, eta0, distance_matrix) ==
    LET e == exp_term(beta, distance_matrix)
        factor == Vec(LAMBDA r : Vec(LAMBDA c : FMul(e[r][c], eta0[c]), Len(e[r])), Len(e))
    IN Vec(LAMBDA r : LET total == FSum(factor[r])
                      IN Vec(LAMBDA c : FDiv(factor[r][c], total), Len(e[r])),
           Len(e))

\* fixed_points is the dict as a sequence of <<cluster_id, points>> items, in
\* dict order; points is the tuple of point positions anchored to cluster_id.
InPoints(p, points) == \E q \in 1..Len(points) : points[q] = p

\* mutant: the Gibbs rows of anchored points are left as computed
set_gibbs_fixed_points_skipped(gibbs, fp) == gibbs

\* da.py 199-203: the row of every anchored point becomes the one-hot row of
\* its cluster
RECURSIVE set_gibbs_fixed_points(_, _)
set_gibbs_fixed_points(gibbs, fp) ==
    IF fp = <<>> THEN gibbs
    ELSE LET cluster_id == Head(fp)[1]
             points_id == Head(fp)[2]
             g == Vec(LAMBDA r :
                        IF InPoints(r, points_id)
                        THEN Vec(LAMBDA c : IF c = cluster_id + 1 THEN S ELSE 0,
                                 Len(gibbs[r]))
                        ELSE gibbs[r],
                      Len(gibbs))
         IN set_gibbs_fixed_points(g, Tail(fp))

\* da.py 205-211: demand-weighted centroids of the soft assignment
update_centers(dp, gibbs, Xa) ==
    LET k == Len(gibbs[1])
        divide_up == Vec(LAMBDA c :
                           FSum(Vec(LAMBDA r : FMul(gibbs[r][c], FMul(Xa[r], dp[r])),
                                    Len(Xa))),
                         k)
        p_y == Vec(LAMBDA c : FSum(Vec(LAMBDA r : FMul(gibbs[r][c], dp[r]), Len(Xa))), k)
    IN Vec(LAMBDA c : FDiv(divide_up[c], p_y[c]), k)

\* X[points_idxs].mean(axis=0)
MeanOf(Xa, points_idxs) ==
    FSum(Vec(LAMBDA q : Xa[points_idxs[q]], Len(points_idxs))) \div Len(points_idxs)

\* da.py 162-165
RECURSIVE set_centers_for_anchors(_, _, _)
set_centers_for_anchors(cs, Xa, fp) ==
    IF fp = <<>> THEN cs
    ELSE LET cluster_id == Head(fp)[1]
             points_idxs == Head(fp)[2]
             c2 == [cs EXCEPT ![cluster_id + 1] = MeanOf(Xa, points_idxs)]
         IN set_centers_for_anchors(c2, Xa, Tail(fp))

\* collections.Counter(labels)[cluster_id]
Count(labels, cluster_id) == Cardinality({r \in 1..Len(labels) : labels[r] = cluster_id})

\* len(collections.Counter(labels))
Distinct(labels) == Cardinality({labels[r] : r \in 1..Len(labels)})

\* mutant: the checker tests only that every cluster id is present
is_satisfied_presence_only(capacity, labels) ==
    \A cluster_id \in 0..(Len(capacity) - 1) : Count(labels, cluster_id) > 0

\* capacity entries are fixed-point floats n_samples * lamb[j]
is_satisfied(capacity, labels) ==
    \A cluster_id \in 0..(Len(capacity) - 1) :
        /\ Count(labels, cluster_id) > 0
        /\ Count(labels, cluster_id) * S <= capacity[cluster_id + 1]

\* mutant: the inner loop never breaks
break_never(capacity, labels) == FALSE

break_condition(capacity, labels) == is_satisfied(capacity, labels)


\* ------------------------------------------------------------------------
\* The process-wide generator of module random.  The Mersenne Twister is
\* modelled by a full-period linear congruential generator: what matters to
\* the program is that a draw is a function of the generator's state, that
\* every draw advances the state, and that seeding resets it.
\* ------------------------------------------------------------------------
RngMod == 64

RngNext(r) == (r * 13 + 7) % RngMod

\* random.seed(random_state)
Seed(random_state) == random_state % RngMod

\* the value of random's _randbelow(m) drawn in state r
randbelow(r, m) == (RngNext(r) \div 4) % m

\* random.sample(range(n), k): k times, draw j below the live pool size, take
\* pool[j] and overwrite it with the last live entry.  Returns the selection
\* and the generator state after the k draws.
RECURSIVE SamplePool(_, _, _, _)
SamplePool(pool, live, k, r) ==
    IF k = 0 THEN [out |-> <<>>, rng |-> r]
    ELSE LET j == randbelow(r, live) + 1
             rest == SamplePool([pool EXCEPT ![j] = pool[live]], live - 1, k - 1, RngNext(r))
         IN [out |-> <<pool[j]>> \o rest.out, rng |-> rest.rng]

sample(n, k, r) == SamplePool([q \in 1..n |-> q], n, k, r)

\* centers = X[random.sample(range(X.shape[0]), self.n_clusters)]
initial_centers(Xa, k, r) ==
    LET sel == sample(Len(Xa), k, r)
    IN [centers |-> Vec(LAMBDA c : Xa[sel.out[c]], k), rng |-> sel.rng]

\* ------------------------------------------------------------------------
\* Inputs
\* ------------------------------------------------------------------------
MaxItersBound == 2

Inst == {1, 2}

\* (n_clusters, distribution) pairs accepted by the constructor's assertions
Configs ==
    { [k |-> 2, lamb |-> <<500, 500>>],
      [k |-> 2, lamb |-> <<750, 250>>],
      [k |-> 3, lamb |-> <<500, 250, 250>>] }

\* temperature schedules (fixed-point: 10.0, 1.0, 0.1)
Schedules == { <<10000, 1000>>, <<1000, 100>> }

\* default of the constructor's random_state
DefaultSeed == 42

Seeds == {DefaultSeed, 7}

\* point sets, one feature per point
PointSets == { <<0, 1000, 5000, 6000>>, <<0, 1000, 5000>> }

\* demands_prob arguments for a point set: None (<<>>), a weight per point,
\* and a vector that is one short
DemandsFor(Xa) ==
    { <<>>,
      [r \in 1..Len(Xa) |-> IF r = 1 THEN 2 * S ELSE S],
      [r \in 1..(Len(Xa) - 1) |-> S] }

\* fixed_points arguments: None or {} (<<>>), and dicts anchoring each point
\* to at most one cluster
AnchorsFor(Xa) ==
    { <<>>,
      << <<0, <<1, Len(Xa)>> >> >>,
      << <<1, <<1>> >> >>,
      << <<0, <<2>> >>, <<1, <<1>> >> >> }

\* ------------------------------------------------------------------------
\* State
\* ------------------------------------------------------------------------
VARIABLES
    n_clusters, lamb, T, max_iters,   \* constructor arguments (fields of every instance)
    self,                \* the fields a solver instance mutates, per instance
    rng,                 \* state of the process-wide generator
    pc,                  \* position of the running call
    who,                 \* instance the running (or last) call belongs to
    X, demands_prob, fixed_points,    \* arguments of fit
    lvl, i,              \* position in self.T, inner-loop counter
    centers, eta, labels,
    solutions, diff_list, is_early_terminated,
    raised,              \* exception that ended the last call, or "none"
    last_call,           \* history: the method called last
    dp_arg,              \* history: the demands_prob argument of the last fit
    ret, pred_X, pred_eta,            \* predict: return value, argument, local eta
    m_labels, m_list, m_adj,          \* modify: labels, rest of cluster_id_list, adjacent_centers
    calls,               \* history: number of fit calls that passed validation
    errors,              \* history: number of fit calls that raised
    constructs,          \* history: number of constructor calls
    broke,               \* history: the inner loop of the current level ended by break
    level_etas,          \* history: eta at the end of each level run
    pre_self,            \* history: fields of the instance when fit was called
    pred_calls,          \* history: <<argument, result>> of each predict since the last fit
    runs,                \* history: the completed fit runs
    seeded_with, drawn,  \* history: last seed given to random.seed, a draw was made since
    run_fresh            \* history: the running fit started on a freshly seeded generator

cfgVars == <<n_clusters, lamb, T, max_iters>>

fitVars == <<X, demands_prob, fixed_points, lvl, i, centers, eta, labels,
             solutions, diff_list, is_early_terminated, broke, level_etas,
             pre_self, run_fresh, dp_arg>>

predVars == <<ret, pred_X, pred_eta, pred_calls>>

modVars == <<m_labels, m_list, m_adj>>

rngVars == <<rng, seeded_with, drawn>>

cntVars == <<calls, errors, constructs>>

vars == <<cfgVars, self, pc, who, raised, last_call, cntVars, runs, fitVars, predVars,
          modVars, rngVars>>

\* fields set by __init__ (capacity does not exist until fit sets it: <<>>)
NewSelf(random_state) ==
    [ constructed |-> TRUE, random_state |-> random_state,
      beta |-> NONE, t |-> NONE,
      cluster_centers_ |-> <<>>, labels_ |-> <<>>,
      eta_ |-> <<>>, demands_prob_ |-> <<>>,
      capacity |-> <<>>, prev_labels |-> <<>> ]

NoSelf ==
    [ constructed |-> FALSE, random_state |-> NONE,
      beta |-> NONE, t |-> NONE,
      cluster_centers_ |-> <<>>, labels_ |-> <<>>,
      eta_ |-> <<>>, demands_prob_ |-> <<>>,
      capacity |-> <<>>, prev_labels |-> <<>> ]

IdleFrame ==
    /\ pc = "idle" /\ who = 1 /\ raised = "none" /\ last_call = "none" /\ dp_arg = <<>>
    /\ X = <<>> /\ demands_prob = <<>> /\ fixed_points = <<>>
    /\ lvl = 0 /\ i = 0
    /\ centers = <<>> /\ eta = <<>> /\ labels = <<>>
    /\ solutions = <<>> /\ diff_list = <<>> /\ is_early_terminated = FALSE
    /\ ret = <<>> /\ pred_X = <<>> /\ pred_eta = <<>>
    /\ m_labels = <<>> /\ m_list = <<>> /\ m_adj = <<>>
    /\ calls = 0 /\ errors = 0 /\ broke = FALSE /\ level_etas = <<>>
    /\ pre_self = NoSelf /\ pred_calls = <<>> /\ runs = <<>>
    /\ run_fresh = FALSE

ChooseConfig ==
    /\ \E cfg \in Configs : n_clusters = cfg.k /\ lamb = cfg.lamb
    /\ T \in Schedules
    /\ max_iters \in 1..MaxItersBound

\* one solver, constructed: DeterministicAnnealing(n_clusters, distribution,
\* max_iters, T=T), random_state left at its default
Init ==
    /\ ChooseConfig
    /\ self = [q \in Inst |-> IF q = 1 THEN NewSelf(DefaultSeed) ELSE NoSelf]
    /\ rng = Seed(DefaultSeed)
    /\ seeded_with = DefaultSeed
    /\ drawn = FALSE
    /\ constructs = 1
    /\ IdleFrame

\* the same, also with a distribution that gives one cluster no share
\* (np.sum([1.0, 0.0]).round(3) == 1 passes the constructor's assertion)
InitModify ==
    /\ \/ ChooseConfig
       \/ n_clusters = 2 /\ lamb = <<1000, 0>> /\ T \in Schedules /\ max_iters = 1
    /\ self = [q \in Inst |-> IF q = 1 THEN NewSelf(DefaultSeed) ELSE NoSelf]
    /\ rng = Seed(DefaultSeed)
    /\ seeded_with = DefaultSeed
    /\ drawn = FALSE
    /\ constructs = 1
    /\ IdleFrame

\* state of the generator when the process starts: seeded by the interpreter
\* from the operating system, so any state
UnseededStates == {3, 11}

\* a process in which no solver has been constructed yet
InitRepro ==
    /\ ChooseConfig
    /\ self = [q \in Inst |-> NoSelf]
    /\ rng \in UnseededStates
    /\ seeded_with = NONE
    /\ drawn = FALSE
    /\ constructs = 0
    /\ IdleFrame

\* mutant: the constructor does not seed the generator
ConstructWithoutSeeding(q, random_state) ==
    /\ pc = "idle"
    /\ constructs < MaxConstructs
    /\ constructs' = constructs + 1
    /\ self' = [self EXCEPT ![q] = NewSelf(random_state)]
    /\ rng' = rng
    /\ seeded_with' = random_state
    /\ drawn' = FALSE
    /\ UNCHANGED <<cfgVars, pc, who, raised, last_call, calls, errors, runs, fitVars, predVars,
                   modVars>>

\* da.py 27-60 and base.py 14-31: __init__ with arguments that pass its
\* assertions; it seeds the process-wide generator
Construct(q, random_state) ==
    /\ pc = "idle"
    /\ constructs < MaxConstructs
    /\ constructs' = constructs + 1
    /\ self' = [self EXCEPT ![q] = NewSelf(random_state)]
    /\ rng' = Seed(random_state)
    /\ seeded_with' = random_state
    /\ drawn' = FALSE
    /\ UNCHANGED <<cfgVars, pc, who, raised, last_call, calls, errors, runs, fitVars, predVars,
                   modVars>>


\* ------------------------------------------------------------------------
\* fit
\* ------------------------------------------------------------------------
\* demands_prob / sum(demands_prob)
Normalize(dp) == LET total == FSum(dp) IN Vec(LAMBDA r : FDiv(dp[r], total), Len(dp))

\* [n_samples * d for d in self.lamb]
Capacity(n_samples, distribution) ==
    Vec(LAMBDA c : n_samples * distribution[c], Len(distribution))

\* mutant: the length of demands_prob is not checked
ShapeNotChecked(dp, Xa) == TRUE

\* da.py 74: assert demands_prob.shape[0] == X.shape[0], reached only when
\* demands_prob is given
ShapeOk(dp, Xa) == dp = <<>> \/ Len(dp) = Len(Xa)

\* da.py 62-75: the call, up to the loop over self.T.  The capacity is assigned
\* before the length of demands_prob is asserted.
FitCall(q, Xa, dp, fp, maxCalls) ==
    /\ pc = "idle"
    /\ self[q].constructed
    /\ who' = q
    /\ pre_self' = self[q]
    /\ X' = Xa
    /\ fixed_points' = fp
    /\ solutions' = <<>>
    /\ diff_list' = <<>>
    /\ level_etas' = <<>>
    /\ is_early_terminated' = FALSE
    /\ broke' = FALSE
    /\ self' = [self EXCEPT ![q].capacity = Capacity(Len(Xa), lamb)]
    /\ run_fresh' = (~drawn /\ seeded_with = self[q].random_state)
    /\ last_call' = "fit"
    /\ dp_arg' = dp
    /\ IF ~ShapeOk(dp, Xa)
       THEN /\ errors < MaxErrors
            /\ errors' = errors + 1
            /\ raised' = "AssertionError"
            /\ pc' = "idle"
            /\ UNCHANGED <<demands_prob, lvl, calls>>
       ELSE /\ calls < maxCalls
            /\ calls' = calls + 1
            /\ errors' = errors
            /\ raised' = "none"
            /\ demands_prob' = Normalize(IF dp = <<>> THEN Vec(LAMBDA r : S, Len(Xa)) ELSE dp)
            /\ lvl' = 1
            /\ pc' = "level"
    /\ ret' = <<>> /\ pred_X' = <<>> /\ pred_eta' = <<>> /\ pred_calls' = <<>>
    /\ UNCHANGED <<cfgVars, runs, constructs, i, centers, eta, labels, modVars, rngVars>>

\* da.py 76-85: the head of the loop over self.T and the set-up of a level
LevelStart ==
    /\ pc = "level"
    /\ lvl <= Len(T)
    /\ \E init \in {initial_centers(X, n_clusters, rng)} :
          /\ centers' = IF fixed_points # <<>>
                        THEN set_centers_for_anchors(init.centers, X, fixed_points)
                        ELSE init.centers
          /\ rng' = init.rng
    /\ drawn' = TRUE
    /\ self' = [self EXCEPT ![who].t = T[lvl]]
    /\ eta' = lamb
    /\ labels' = <<>>
    /\ i' = 0
    /\ broke' = FALSE
    /\ pc' = "iter"
    /\ UNCHANGED <<cfgVars, who, raised, last_call, cntVars, runs, X, demands_prob,
                   fixed_points, lvl, solutions, diff_list, is_early_terminated,
                   level_etas, pre_self, run_fresh, dp_arg, predVars, modVars, seeded_with>>

\* da.py 88-102: the body of the inner loop, as a function of the values it reads
InnerStep(t, Xa, dp, fp, cs, eta0, capacity) ==
    LET beta == FDiv(S, t)
        distance_matrix == distance_func(Xa, cs)
        eta2 == update_eta(lamb, beta, eta0, dp, distance_matrix)
        gibbs0 == update_gibbs(beta, eta2, distance_matrix)
        gibbs == IF fp # <<>> THEN set_gibbs_fixed_points(gibbs0, fp) ELSE gibbs0
        centers0 == update_centers(dp, gibbs, Xa)
        centers2 == IF fp # <<>> THEN set_centers_for_anchors(centers0, Xa, fp) ELSE centers0
        labels2 == argmax(gibbs)
    IN [ beta |-> beta, eta |-> eta2, centers |-> centers2,
         t |-> (t * 999) \div 1000,
         labels |-> labels2, stop |-> break_condition(capacity, labels2) ]

\* da.py 87-104: one pass of the inner loop
Iterate ==
    /\ pc = "iter"
    /\ i < max_iters
    /\ \E res \in {InnerStep(self[who].t, X, demands_prob, fixed_points, centers, eta,
                             self[who].capacity)} :
          /\ eta' = res.eta
          /\ centers' = res.centers
          /\ labels' = res.labels
          /\ broke' = res.stop
          /\ self' = [self EXCEPT ![who].beta = res.beta,
                                  ![who].t = res.t,
                                  ![who].prev_labels =
                                      IF res.stop THEN self[who].prev_labels ELSE res.labels]
          /\ i' = IF res.stop THEN i ELSE i + 1
          /\ pc' = IF res.stop \/ i + 1 >= max_iters THEN "level_end" ELSE "iter"
    /\ UNCHANGED <<cfgVars, who, raised, last_call, cntVars, runs, X, demands_prob,
                   fixed_points, lvl, solutions, diff_list, is_early_terminated,
                   level_etas, pre_self, run_fresh, dp_arg, predVars, modVars, rngVars>>

\* da.py 106-113: the result of the level is recorded and measured
LevelEnd ==
    /\ pc = "level_end"
    /\ \E resultant_clusters \in {Distinct(labels)} : \E d \in {Distinct(labels) - n_clusters} :
          /\ solutions' = Append(solutions, <<labels, centers>>)
          /\ diff_list' = Append(diff_list, IF d >= 0 THEN d ELSE -d)
          /\ level_etas' = Append(level_etas, eta)
          /\ IF resultant_clusters = n_clusters
             THEN /\ is_early_terminated' = TRUE
                  /\ pc' = "select"
                  /\ lvl' = lvl
             ELSE /\ is_early_terminated' = is_early_terminated
                  /\ pc' = IF lvl + 1 > Len(T) THEN "select" ELSE "level"
                  /\ lvl' = lvl + 1
    /\ UNCHANGED <<cfgVars, self, who, raised, last_call, cntVars, runs, X, demands_prob,
                   fixed_points, i, centers, eta, labels, broke, pre_self, run_fresh, dp_arg,
                   predVars, modVars, rngVars>>

\* mutant: the last minimal entry is selected
argmin_last(s) ==
    CHOOSE j \in 1..Len(s) :
        /\ \A q \in 1..Len(s) : s[j] <= s[q]
        /\ \A q \in (j + 1)..Len(s) : s[q] > s[j]

\* np.argmin(diff_list): 1-based position of the first minimal entry
argmin(s) ==
    CHOOSE j \in 1..Len(s) :
        /\ \A q \in 1..Len(s) : s[j] <= s[q]
        /\ \A q \in 1..(j - 1) : s[q] > s[j]

\* da.py 117-124: selection and persistence of the fitted state
Select ==
    /\ pc = "select"
    /\ \E best \in {IF is_early_terminated THEN <<labels, centers>>
                     ELSE solutions[argmin(diff_list)]} :
          /\ labels' = best[1]
          /\ centers' = best[2]
          /\ self' = [self EXCEPT ![who].cluster_centers_ = best[2],
                                  ![who].labels_ = best[1],
                                  ![who].eta_ = eta,
                                  ![who].demands_prob_ = demands_prob]
          /\ runs' = Append(runs, [inst |-> who, seed |-> self[who].random_state,
                                   fresh |-> run_fresh,
                                   X |-> X, demands_prob |-> demands_prob,
                                   fixed_points |-> fixed_points,
                                   labels_ |-> best[1], cluster_centers_ |-> best[2]])
    /\ pc' = "idle"
    /\ UNCHANGED <<cfgVars, who, raised, last_call, cntVars, X, demands_prob, fixed_points,
                   lvl, i, eta, solutions, diff_list, is_early_terminated, broke,
                   level_etas, pre_self, run_fresh, dp_arg, predVars, modVars, rngVars>>

\* ------------------------------------------------------------------------
\* predict
\* ------------------------------------------------------------------------
Fitted(q) == self[q].constructed /\ self[q].labels_ # <<>>

\* mutant: predict feeds the stored eta to the Gibbs update
PredictBodyStoredEta(fields, Xn) ==
    LET distance_matrix == distance_func(Xn, fields.cluster_centers_)
        gibbs == update_gibbs(fields.beta, fields.eta_, distance_matrix)
    IN [eta |-> fields.eta_, labels |-> argmax(gibbs)]

\* da.py 127-130: the values predict computes from the fields of the instance
PredictBody(fields, Xn) ==
    LET distance_matrix == distance_func(Xn, fields.cluster_centers_)
        eta2 == update_eta(lamb, fields.beta, fields.eta_, fields.demands_prob_,
                           distance_matrix)
        gibbs == update_gibbs(fields.beta, eta2, distance_matrix)
    IN [eta |-> eta2, labels |-> argmax(gibbs)]

\* mutant: predict stores the refined eta back into the instance
PredictPersistsEta(q, Xn) ==
    /\ pc = "idle"
    /\ Fitted(q)
    /\ Len(pred_calls) < MaxPredicts
    /\ who' = q
    /\ last_call' = "predict"
    /\ pred_X' = Xn
    /\ IF Len(Xn) # Len(self[q].demands_prob_)
       THEN /\ raised' = "ValueError"
            /\ UNCHANGED <<ret, pred_eta, self>>
            /\ pred_calls' = Append(pred_calls, <<Xn, <<>> >>)
       ELSE \E res \in {PredictBody(self[q], Xn)} :
               /\ raised' = "none"
               /\ pred_eta' = res.eta
               /\ self' = [self EXCEPT ![q].eta_ = res.eta]
               /\ ret' = res.labels
               /\ pred_calls' = Append(pred_calls, <<Xn, res.labels>>)
    /\ UNCHANGED <<cfgVars, pc, cntVars, runs, fitVars, modVars, rngVars>>

\* da.py 126-131.  divider * demands_prob in update_eta broadcasts only when
\* the new point set has as many rows as the stored demand vector.
Predict(q, Xn) ==
    /\ pc = "idle"
    /\ Fitted(q)
    /\ Len(pred_calls) < MaxPredicts
    /\ who' = q
    /\ last_call' = "predict"
    /\ pred_X' = Xn
    /\ IF Len(Xn) # Len(self[q].demands_prob_)
       THEN /\ raised' = "ValueError"
            /\ UNCHANGED <<ret, pred_eta>>
            /\ pred_calls' = Append(pred_calls, <<Xn, <<>> >>)
       ELSE \E res \in {PredictBody(self[q], Xn)} :
               /\ raised' = "none"
               /\ pred_eta' = res.eta
               /\ ret' = res.labels
               /\ pred_calls' = Append(pred_calls, <<Xn, res.labels>>)
    /\ UNCHANGED <<cfgVars, self, pc, cntVars, runs, fitVars, modVars, rngVars>>

\* ------------------------------------------------------------------------
\* modify
\* ------------------------------------------------------------------------
\* np.argsort(row): positions of row in ascending order (ties keep their order)
Rank(row, j) ==
    Cardinality({q \in 1..Len(row) :
                    \/ ArgKey(row[q]) < ArgKey(row[j])
                    \/ (ArgKey(row[q]) = ArgKey(row[j]) /\ q < j)})

argsort(row) == Vec(LAMBDA pos : CHOOSE j \in 1..Len(row) : Rank(row, j) = pos - 1, Len(row))

\* np.argsort(centers_distance, axis=1)[c, 1:3].tolist(), as 0-based cluster ids
Adjacent(centers_distance, c) ==
    LET order == argsort(centers_distance[c])
    IN Vec(LAMBDA pos : order[pos + 1] - 1,
           IF Len(order) >= 3 THEN 2 ELSE IF Len(order) = 2 THEN 1 ELSE 0)

\* list(collections.Counter(labels).keys()): the labels in order of first occurrence
RECURSIVE Keys(_)
Keys(ls) ==
    IF ls = <<>> THEN <<>>
    ELSE LET rest == Keys(SelectSeq(Tail(ls), LAMBDA v : v # Head(ls)))
         IN <<Head(ls)>> \o rest

\* random.shuffle(x): for i from len(x)-1 down to 1, swap x[i] with
\* x[randbelow(i+1)].  Returns the list and the generator state.
RECURSIVE shuffle(_, _, _)
shuffle(x, hi, r) ==
    IF hi <= 1 THEN [out |-> x, rng |-> r]
    ELSE LET j == randbelow(r, hi) + 1
         IN shuffle([x EXCEPT ![hi] = x[j], ![j] = x[hi]], hi - 1, RngNext(r))

\* label vectors of a given length
LabelVectors(n, k) == [1..n -> 0..(k - 1)]

\* da.py 133-135: modify(labels, self.cluster_centers_, distance_func(X,
\* self.cluster_centers_)) on a fitted instance, as the call commented out at
\* da.py 116 passes them
ModifyCall(q, ls) ==
    /\ pc = "idle"
    /\ Fitted(q)
    /\ m_labels = <<>>
    /\ who' = q
    /\ last_call' = "modify"
    /\ m_labels' = ls
    /\ m_adj' = LET centers_distance == distance_func(self[q].cluster_centers_,
                                                      self[q].cluster_centers_)
                IN Vec(LAMBDA c : Adjacent(centers_distance, c), n_clusters)
    /\ m_list' = <<>>
    /\ raised' = "none"
    /\ ret' = <<>>
    /\ pc' = "m_while"
    /\ UNCHANGED <<cfgVars, self, cntVars, runs, fitVars, pred_X, pred_eta, pred_calls, rngVars>>

\* da.py 136-139 and 155: the loop test; the return, or the shuffled id list
ModifyWhile ==
    /\ pc = "m_while"
    /\ IF is_satisfied(self[who].capacity, m_labels)
       THEN /\ ret' = m_labels
            /\ pc' = "idle"
            /\ UNCHANGED <<m_list, rng, drawn>>
       ELSE \E sh \in {shuffle(Keys(m_labels), Len(Keys(m_labels)), rng)} :
               /\ m_list' = sh.out
               /\ rng' = sh.rng
               /\ pc' = "m_for"
               /\ ret' = ret
               /\ drawn' = (drawn \/ Len(sh.out) > 1)
    /\ UNCHANGED <<cfgVars, self, who, raised, last_call, cntVars, runs, fitVars, pred_X,
                   pred_eta, pred_calls, m_labels, m_adj, seeded_with>>

\* da.py 140-153: one pass of the loop over cluster_id_list.  diff is a float
\* (a count minus the float capacity n_samples * d), and a float is not a
\* slice index: np.argsort(diff_distance)[:diff] raises TypeError before any
\* label is reassigned.
ModifyFor ==
    /\ pc = "m_for"
    /\ IF m_list = <<>>
       THEN /\ pc' = "m_while"
            /\ UNCHANGED <<m_list, rng, raised, drawn>>
       ELSE \E cluster_id \in {Head(m_list)} :
            \E diff \in {Count(m_labels, cluster_id) * S - self[who].capacity[cluster_id + 1]} :
               IF diff <= 0
               THEN /\ m_list' = Tail(m_list)
                    /\ pc' = "m_for"
                    /\ UNCHANGED <<rng, raised, drawn>>
               ELSE /\ rng' = RngNext(rng)    \* random.choice(adjacent_centers[cluster_id])
                    /\ drawn' = TRUE
                    /\ raised' = "TypeError"
                    /\ m_list' = Tail(m_list)
                    /\ pc' = "idle"
    /\ UNCHANGED <<cfgVars, self, who, last_call, cntVars, runs, fitVars, predVars, m_labels,
                   m_adj, seeded_with>>

\* ------------------------------------------------------------------------
\* Specifications
\* ------------------------------------------------------------------------
\* one solver: fit and predict
Next ==
    \/ \E Xa \in PointSets : \E dp \in DemandsFor(Xa) : \E fp \in AnchorsFor(Xa) :
          FitCall(1, Xa, dp, fp, MaxFits)
    \/ LevelStart
    \/ Iterate
    \/ LevelEnd
    \/ Select
    \/ \E Xn \in PointSets : Predict(1, Xn)

Spec == Init /\ [][Next]_vars

\* two solvers in one process: construction and fit in any order
NextRepro ==
    \/ \E q \in Inst : \E seed \in Seeds : Construct(q, seed)
    \/ \E q \in Inst : \E Xa \in PointSets : FitCall(q, Xa, <<>>, <<>>, MaxRuns)
    \/ LevelStart
    \/ Iterate
    \/ LevelEnd
    \/ Select

SpecRepro == InitRepro /\ [][NextRepro]_vars

\* one solver: fit, then the rebalancing operation
NextModify ==
    \/ \E Xa \in PointSets : FitCall(1, Xa, <<>>, <<>>, MaxFits)
    \/ LevelStart
    \/ Iterate
    \/ LevelEnd
    \/ Select
    \/ \E ls \in LabelVectors(Len(X), n_clusters) : ModifyCall(1, ls)
    \/ ModifyWhile
    \/ ModifyFor

SpecModify == InitModify /\ [][NextModify]_vars

\* ------------------------------------------------------------------------
\* Properties
\* ------------------------------------------------------------------------
\* fit has returned (the frame keeps the values of the call that returned)
FitReturned == pc = "idle" /\ solutions # <<>>

WithinCapacity(capacity, ls) ==
    \A cluster_id \in 0..(Len(capacity) - 1) :
        Count(ls, cluster_id) * S <= capacity[cluster_id + 1]

AllPresent(ls, k) == \A cluster_id \in 0..(k - 1) : Count(ls, cluster_id) > 0

\* C1 (as claimed): whenever a level triggers early termination, every
\* cluster's hard-label count is at most its capacity.
C1_EarlyTerminationWithinCapacity ==
    (pc = "select" /\ is_early_terminated)
        => WithinCapacity(self[who].capacity, labels)

\* C1 (amended): a level that triggers early termination after its inner loop
\* ended through the break condition has every count within capacity, and a
\* level whose result is over capacity triggered it by running out of max_iters.
C1_EarlyTerminationAfterBreak ==
    (pc = "select" /\ is_early_terminated)
        => /\ AllPresent(labels, n_clusters)
           /\ broke => WithinCapacity(self[who].capacity, labels)
           /\ ~WithinCapacity(self[who].capacity, labels) => (~broke /\ i = max_iters)

C1_Witness ==
    /\ pc = "select" /\ is_early_terminated /\ broke
    /\ WithinCapacity(self[who].capacity, labels)

AnchorsHold(ls, fp) ==
    \A a \in 1..Len(fp) : \A q \in 1..Len(fp[a][2]) : ls[fp[a][2][q]] = fp[a][1]

\* C2: the hard label of every anchored point is its cluster at the end of
\* every inner-loop iteration of every level, and in labels_ after fit returns.
C2_AnchorsKeepLabel ==
    /\ (pc \in {"iter", "level_end", "select"} /\ labels # <<>>)
          => AnchorsHold(labels, fixed_points)
    /\ \A j \in 1..Len(solutions) : AnchorsHold(solutions[j][1], fixed_points)
    /\ FitReturned => AnchorsHold(self[who].labels_, fixed_points)

\* an anchored point whose own cluster's center is farther than another center,
\* in a fit that ended through the fallback selection
C2_Witness ==
    /\ FitReturned /\ last_call = "fit" /\ ~is_early_terminated
    /\ \E a \in 1..Len(fixed_points) :
          LET p == fixed_points[a][2][1]
              c == fixed_points[a][1]
              cs == self[who].cluster_centers_
          IN \E other \in 1..Len(cs) :
                /\ IsFinite(cs[other]) /\ IsFinite(cs[c + 1])
                /\ FAbsDiff(X[p], cs[other]) < FAbsDiff(X[p], cs[c + 1])

PredictReturned == pc = "idle" /\ last_call = "predict" /\ raised = "none"

\* C3 (as claimed): the eta fed to predict's Gibbs update is the stored eta.
C3_PredictUsesStoredEta == PredictReturned => pred_eta = self[who].eta_

\* C3 (amended): predict feeds its Gibbs update the result of exactly one
\* update_eta step on the stored eta (stored demand vector, distances of the
\* new points to the stored centers), at the stored beta.
C3_PredictRefinesEtaOnce ==
    PredictReturned =>
        LET f == self[who]
            distance_matrix == distance_func(pred_X, f.cluster_centers_)
        IN /\ pred_eta = update_eta(lamb, f.beta, f.eta_, f.demands_prob_, distance_matrix)
           /\ ret = argmax(update_gibbs(f.beta, pred_eta, distance_matrix))

C3_Witness == PredictReturned /\ pred_eta # self[who].eta_ /\ \A c \in 1..Len(pred_eta) : IsFinite(pred_eta[c])

\* C4: predict twice on the same input gives the same labels, and a predict
\* step changes no field of any solver nor the generator.
C4_PredictIdempotent ==
    /\ [](\A a, b \in 1..Len(pred_calls) :
             pred_calls[a][1] = pred_calls[b][1] => pred_calls[a][2] = pred_calls[b][2])
    /\ [][Len(pred_calls') > Len(pred_calls) => (self' = self /\ rng' = rng)]_vars

C4_Witness ==
    /\ PredictReturned /\ Len(pred_calls) = 2
    /\ pred_calls[1][1] = pred_calls[2][1]
    /\ ret # <<>> /\ ret = pred_calls[1][2]

SameInputs(a, b) ==
    /\ a.seed = b.seed /\ a.X = b.X
    /\ a.demands_prob = b.demands_prob /\ a.fixed_points = b.fixed_points

SameResult(a, b) ==
    a.labels_ = b.labels_ /\ a.cluster_centers_ = b.cluster_centers_

\* C5 (as claimed): any two fit runs with the same random_state, inputs and
\* schedule give the same cluster_centers_ and labels_.
C5_AnyTwoRunsAgree ==
    \A a, b \in 1..Len(runs) : SameInputs(runs[a], runs[b]) => SameResult(runs[a], runs[b])

\* C5 (amended): two such runs agree when each started with the generator as
\* the seeding of the run's own random_state left it (no draw in between).
C5_FreshRunsAgree ==
    \A a, b \in 1..Len(runs) :
        (SameInputs(runs[a], runs[b]) /\ runs[a].fresh /\ runs[b].fresh)
            => SameResult(runs[a], runs[b])

C5_Witness ==
    /\ Len(runs) = 2 /\ pc = "idle"
    /\ runs[1].fresh /\ runs[2].fresh
    /\ runs[1].inst # runs[2].inst
    /\ SameInputs(runs[1], runs[2])
    /\ Distinct(runs[1].labels_) = n_clusters

FitRaised == last_call = "fit" /\ dp_arg # <<>> /\ Len(dp_arg) # Len(X)

\* C6 (as claimed): a demands_prob of the wrong length makes fit raise before
\* any level runs and leaves every field, capacity included, as it was.
C6_ShapeErrorLeavesState ==
    FitRaised => /\ raised = "AssertionError" /\ pc = "idle" /\ solutions = <<>>
                 /\ self[who] = pre_self

\* C6 (amended): ... leaves labels_, cluster_centers_, the stored eta and the
\* stored demand vector as they were; the capacity has already been
\* overwritten with n * lambda_j for the point set of the failing call.
C6_ShapeErrorKeepsFittedState ==
    FitRaised => /\ raised = "AssertionError" /\ pc = "idle" /\ solutions = <<>>
                 /\ [self[who] EXCEPT !.capacity = pre_self.capacity] = pre_self
                 /\ \A c \in 1..n_clusters : self[who].capacity[c] = Len(X) * lamb[c]

C6_Witness ==
    /\ FitRaised /\ raised = "AssertionError"
    /\ pre_self.labels_ # <<>>
    /\ self[who].capacity # pre_self.capacity

AbsInt(d) == IF d >= 0 THEN d ELSE -d

\* C7: levels run in schedule order; the persisted (labels_, cluster_centers_)
\* is the pair of one level: the first with n_clusters distinct labels, which
\* is the last level run, or else the earliest level of minimal deviation.
C7_SingleLevelSelected ==
    /\ (pc = "iter" /\ i = 0) => (lvl = Len(solutions) + 1 /\ self[who].t = T[lvl])
    /\ Len(diff_list) = Len(solutions) /\ Len(solutions) <= Len(T)
    /\ \A j \in 1..Len(solutions) :
          diff_list[j] = AbsInt(Distinct(solutions[j][1]) - n_clusters)
    /\ FitReturned =>
          LET m == Len(solutions)
              exact == {j \in 1..m : Distinct(solutions[j][1]) = n_clusters}
              f == self[who]
          IN IF exact # {}
             THEN /\ exact = {m}
                  /\ <<f.labels_, f.cluster_centers_>> = solutions[m]
             ELSE /\ m = Len(T)
                  /\ \E j \in 1..m :
                        /\ \A q \in 1..m : diff_list[j] <= diff_list[q]
                        /\ \A q \in 1..(j - 1) : diff_list[q] > diff_list[j]
                        /\ <<f.labels_, f.cluster_centers_>> = solutions[j]

\* the fallback selected a level other than the first
C7_Witness ==
    /\ FitReturned /\ last_call = "fit" /\ ~is_early_terminated
    /\ diff_list[1] > diff_list[Len(diff_list)]
    /\ <<self[who].labels_, self[who].cluster_centers_>> = solutions[Len(solutions)]
    /\ solutions[1] # solutions[Len(solutions)]

SelectedLevel == IF is_early_terminated THEN Len(solutions) ELSE argmin(diff_list)

\* C8: the persisted eta is the eta of the level whose labels and centers are
\* persisted.
C8_EtaOfSelectedLevel ==
    FitReturned => self[who].eta_ = level_etas[SelectedLevel]

\* C9: the first iteration whose labels satisfy the capacity checker ends the
\* inner loop, no further level runs, and labels_ is exactly those labels.
C9_BreakEndsFit ==
    /\ (pc = "iter" /\ i > 0) => ~is_satisfied(self[who].capacity, labels)
    /\ (pc \in {"level", "iter", "level_end"}) =>
          \A j \in 1..Len(solutions) : ~is_satisfied(self[who].capacity, solutions[j][1])
    /\ (pc = "level_end" /\ is_satisfied(self[who].capacity, labels)) => broke
    /\ FitReturned =>
          \A j \in 1..Len(solutions) :
              is_satisfied(self[who].capacity, solutions[j][1])
                 => /\ j = Len(solutions)
                    /\ self[who].labels_ = solutions[j][1]
                    /\ is_satisfied(self[who].capacity, self[who].labels_)

C9_Witness ==
    /\ FitReturned /\ last_call = "fit" /\ broke
    /\ is_satisfied(self[who].capacity, self[who].labels_)
    /\ i = 0 /\ max_iters > 1

Overloaded(capacity, ls) ==
    \E cluster_id \in 0..(Len(capacity) - 1) :
        Count(ls, cluster_id) * S > capacity[cluster_id + 1]

\* C10: modify terminates with labels that satisfy the capacity checker: it
\* raises nothing, it is never in its loop with nothing left to move, and
\* what it returns satisfies the checker.
C10_ModifyTerminatesSatisfied ==
    /\ ~(last_call = "modify" /\ raised = "TypeError")
    /\ ~(pc = "m_while" /\ ~is_satisfied(self[who].capacity, m_labels)
                        /\ ~Overloaded(self[who].capacity, m_labels))
    /\ (last_call = "modify" /\ pc = "idle") => is_satisfied(self[who].capacity, ret)

=============================================================================
